---- MODULE Spec2Model ----
(***************************************************************************)
(* Verification model of the fiber / asio runtime pieces of gaia:          *)
(*   util/asio/client_channel.cc       ClientChannelImpl                   *)
(*   util/asio/accept_server.cc        AcceptServer                        *)
(*   util/fibers/fiberqueue_threadpool.cc  FiberQueueThreadPool            *)
(*   examples/mr3.cc                   Executor (channel consumers)        *)
(*   util/gce/gcs_read_file.cc         GcsReadFile                         *)
(* Each component has its own next-state relation over its own variables;  *)
(* the other components' variables stay at their initial values.           *)
(***************************************************************************)
EXTENDS Integers, Sequences, FiniteSets, TLC

(***************************************************************************)
(* Bounds of the model.                                                    *)
(***************************************************************************)
\* OS threads that call into one ClientChannel (Connect, Shutdown, I/O).
NumThreads == 2
\* Reconnect fibers that may exist at the same time (spawn is capped here).
MaxFibers == 2

\* Connections the accept loop takes before it only fails (the last handler
\* it constructs is never accepted).
MaxConns == 3
\* Reactors (io contexts) of the IoContextPool the AcceptServer draws from.
NumReactors == 2
\* FiberQueueThreadPool(num_threads, queue_size) and the Await calls made.
NumWorkers == 2
QueueSize == 4
MaxTasks == 4

\* GcsReadFile: length of the stored object, length of the caller's buffer,
\* and the number of network failures (reads, reopens) that are injected.
MaxObjLen == 3
MaxBufLen == 2
MaxNetErrors == 2

Threads == 1..NumThreads
\* Fiber 0 is the fiber Connect() posts; 1..MaxFibers run ReconnectFiber.
ConnFiber == 0
RFibers == 1..MaxFibers
Fibers == 0..MaxFibers

(***************************************************************************)
(* ClientChannelImpl state.                                                *)
(*   status_            "ok" or an error code                              *)
(*   shutting_down_, reconnect_active_   the two flags                     *)
(*   sock_              the TCP socket as the OS sees it                   *)
(*   tpc[t]             where caller thread t is                           *)
(*   fpc[f]             where fiber f is (inside ResolveAndConnect or      *)
(*                      ReconnectFiber); "none" = no such fiber            *)
(*   until[f]           steady_clock::now() relative to the deadline of    *)
(*                      f's ResolveAndConnect: "early" (now + 2ms < until),*)
(*                      "near" (now < until <= now + 2ms), "past"          *)
(*   timer[f]           the steady_timer local to ResolveAndConnect        *)
(*   conn[f]            the async_connect started by f and its completion  *)
(*   done[f]            the fibers_ext::Done local to ResolveAndConnect    *)
(* History (ghost) variables used only to state properties:                *)
(*   sd_log             socket operations Shutdown() has performed         *)
(*   sd_returned        some Shutdown() call has returned                  *)
(*   sd_late[t]         t's latest call is a Shutdown() that began after   *)
(*                      some Shutdown() had returned                       *)
(*   cn                 the current/last Connect() call                    *)
(***************************************************************************)
VARIABLES status_, shutting_down_, reconnect_active_, sock_,
          tpc, fpc, until, timer, conn, done,
          sd_log, sd_returned, sd_late, cn

ccVars == <<status_, shutting_down_, reconnect_active_, sock_,
            tpc, fpc, until, timer, conn, done,
            sd_log, sd_returned, sd_late, cn>>

(***************************************************************************)
(* AcceptServer state.                                                     *)
(*   acceptor_          the listening socket: "open" or "closed"           *)
(*   was_run_           set by Run()                                       *)
(*   done_              the fibers_ext::Done "fully stopped"               *)
(*   srv                where the RunInIOThread fiber is                   *)
(*   clist              RunInIOThread's ConnectionHandlerList              *)
(*   cur                number of handlers the factory has constructed;    *)
(*                      while srv = "accept" handler cur is the one in     *)
(*                      async_accept                                       *)
(*   hst[h]             life of handler h                                  *)
(*   hsock[h]           h's socket: "none", "open", "closed"               *)
(*   mpc                where the thread that owns the server is           *)
(*   hctx[h]            the reactor the factory bound handler h to (0 = not*)
(*                      constructed)                                       *)
(* History (ghost) variables used only to state properties:                *)
(*   sock_ops           <<h, operation, reactor>>: operations on h's socket*)
(*                      and the reactor thread that performed them         *)
(*   list_thr           reactor threads that read or changed clist         *)
(***************************************************************************)
VARIABLES acceptor_, was_run_, done_, srv, clist, cur, hst, hsock, mpc,
          hctx, sock_ops, list_thr

asVars == <<acceptor_, was_run_, done_, srv, clist, cur, hst, hsock, mpc,
            hctx, sock_ops, list_thr>>

(***************************************************************************)
(* FiberQueueThreadPool state.                                             *)
(*   input_             the bounded channel of closures: buffer and closed *)
(*   workers_           the pthread ids, in creation order                 *)
(*   wpc[w], wcur[w]    where worker w is, and the closure it holds        *)
(*   ppc, jidx          where the owner of the pool is (Shutdown, the      *)
(*                      destructor) and the join loop's position           *)
(*   tst[c]             the Await call carrying closure c                  *)
(*   exec[c]            number of times closure c has been invoked         *)
(*   aborted            LOG(FATAL) has ended the process                   *)
(* History (ghost) variables used only to state properties:                *)
(*   pushed, popped     the successful pushes and pops, in order           *)
(*   at_close           buffer and pushes at the time of input_.close()    *)
(*   sd_calls           number of times Shutdown() was entered             *)
(***************************************************************************)
VARIABLES input_, workers_, wpc, wcur, ppc, jidx, tst, exec, aborted,
          pushed, popped, at_close, sd_calls

poolVars == <<input_, workers_, wpc, wcur, ppc, jidx, tst, exec, aborted,
              pushed, popped, at_close, sd_calls>>

(***************************************************************************)
(* GcsReadFile state.  The object has obj_len bytes; byte number i (from   *)
(* 1) has the value i, so that order and position can be told apart.       *)
(*   gpc                "none", "new", "open", "open_failed", "closed",     *)
(*                      "crashed"                                          *)
(*   offs_, size_       the members; size_ = -1 while never assigned       *)
(*   https_handle_      0 = empty, k = the k-th connection that was opened *)
(*   parser_            the response parser: first = offset of the first   *)
(*                      body byte of the response in the object, length =  *)
(*                      its Content-Length, read = body bytes parsed       *)
(*   rpc                where the Read() call is                           *)
(*   r_offset, r_len    Read()'s arguments: offset and range.size()        *)
(*   read_sofar, range  Read()'s local and the caller's buffer (0 = not    *)
(*                      written)                                           *)
(*   res                what the last Read() returned                      *)
(* History (ghost) variables used only to state properties:                *)
(*   out                the bytes returned by all Read() calls, in order   *)
(*   errs               number of injected network failures                *)
(*   hist               kinds of failure seen so far; "refetch" when a     *)
(*                      read that had delivered bytes ended in             *)
(*                      stream_truncated                                   *)
(*   placed             highest buffer position written during this Read() *)
(*   opens              number of connections opened                       *)
(***************************************************************************)
VARIABLES obj_len, gpc, offs_, size_, https_handle_, parser_,
          rpc, r_offset, r_len, read_sofar, range, res,
          out, errs, hist, placed, opens

gcsVars == <<obj_len, gpc, offs_, size_, https_handle_, parser_,
             rpc, r_offset, r_len, read_sofar, range, res,
             out, errs, hist, placed, opens>>

vars == <<ccVars, asVars, poolVars, gcsVars>>

\* A step of one component leaves the other components alone.
OnlyCC == UNCHANGED <<asVars, poolVars, gcsVars>>
OnlyAS == UNCHANGED <<ccVars, poolVars, gcsVars>>
OnlyPool == UNCHANGED <<ccVars, asVars, gcsVars>>
OnlyGcs == UNCHANGED <<ccVars, asVars, poolVars>>

ErrorCodes == {"not_connected", "io_err", "conn_err", "operation_aborted"}
StatusCodes == {"ok"} \cup ErrorCodes

InitCC ==
    /\ status_ = "not_connected"
    /\ shutting_down_ = FALSE
    /\ reconnect_active_ = FALSE
    /\ sock_ = "unconnected"
    /\ tpc = [t \in Threads |-> "idle"]
    /\ fpc = [f \in Fibers |-> "none"]
    /\ until = [f \in Fibers |-> "early"]
    /\ timer = [f \in Fibers |-> "idle"]
    /\ conn = [f \in Fibers |-> "none"]
    /\ done = [f \in Fibers |-> FALSE]
    /\ sd_log = {}
    /\ sd_returned = FALSE
    /\ sd_late = [t \in Threads |-> FALSE]
    /\ cn = [state |-> "none", posted |-> FALSE, succ |-> FALSE,
             timedout |-> FALSE, result |-> "none"]

(***************************************************************************)
(* Conditions read by the code.                                            *)
(***************************************************************************)
\* Line 156 without the shutting_down_ test.
HandleErrorStatusSkips_NoShutdownTest == reconnect_active_

\* client_channel.cc:156  if (shutting_down_ || reconnect_active_) return;
HandleErrorStatusSkips == shutting_down_ \/ reconnect_active_

\* client_channel.cc:128  shd_cnd_.wait(l, [this] { return !reconnect_active_; })
ShutdownWaitDone == ~reconnect_active_

\* client_channel.cc:137  if (!shutting_down_ && status_) -> ReconnectAsync()
ContinueTrying == ~shutting_down_ /\ status_ # "ok"

\* client_channel.cc:73   while (!shutting_down_ && status_ && now < until)
LoopCond(u) == ~shutting_down_ /\ status_ # "ok" /\ u # "past"

\* client_channel.cc:98   if (shutting_down_ || now + 2ms >= until)
BackoffAborts(u) == shutting_down_ \/ u # "early"

\* sock_.cancel(): every asynchronous operation pending on the socket
\* completes with operation_aborted; completions already queued are kept.
CancelPending(c) ==
    [g \in Fibers |-> IF c[g] = "pending" THEN "q_abort" ELSE c[g]]

\* The error code a queued completion hands to connect_cb.
CompletionCode(c) ==
    CASE c = "q_ok" -> "ok"
      [] c = "q_err" -> "conn_err"
      [] OTHER -> "operation_aborted"

\* f's ResolveAndConnect frame (timer, done, connect_cb) is alive.
FrameAlive(f) == fpc[f] \in {"resolve", "timer_wait", "done_wait", "sleep"}

NoFibers == \A f \in Fibers : fpc[f] = "none" /\ conn[f] = "none"
ConnectInProgress == cn.state # "none"

(***************************************************************************)
(* ResolveAndConnect(until), run by fiber f.  Its suspension points are    *)
(* the resolve (line 77), the deadline timer wait (86), done.Wait (94) and *)
(* the backoff sleep (105); the code between two of them is one step.      *)
(* The clock is read at lines 73 and 97: until[f] holds the last reading,  *)
(* and every reading is the last one or a later one.                       *)
(***************************************************************************)
ClockFrom(u) ==
    CASE u = "early" -> {"early", "near", "past"}
      [] u = "near" -> {"near", "past"}
      [] OTHER -> {"past"}

\* ResolveAndConnect returns: its locals (until, timer, done) are gone.
RAC_Return(f) ==
    /\ fpc' = [fpc EXCEPT ![f] = "ret"]
    /\ until' = [until EXCEPT ![f] = "early"]
    /\ timer' = [timer EXCEPT ![f] = "idle"]
    /\ done' = [done EXCEPT ![f] = FALSE]

\* Lines 73-77: evaluate the loop condition with the clock at u; start the
\* resolve or fall out of the loop.
RAC_Loop(f, u) ==
    IF LoopCond(u)
    THEN /\ fpc' = [fpc EXCEPT ![f] = "resolve"]
         /\ until' = [until EXCEPT ![f] = u]
         /\ timer' = [timer EXCEPT ![f] = "idle"]
         /\ UNCHANGED done
    ELSE RAC_Return(f)

\* Lines 97-105: after a failed attempt: give up or arm the sleep timer.
RAC_Backoff(f) ==
    \E u \in ClockFrom(until[f]) :
       IF BackoffAborts(u)
       THEN /\ status_' = "operation_aborted"
            /\ RAC_Return(f)
       ELSE /\ status_' = status_
            /\ fpc' = [fpc EXCEPT ![f] = "sleep"]
            /\ until' = [until EXCEPT ![f] = u]
            /\ timer' = [timer EXCEPT ![f] = "sleeping"]
            /\ UNCHANGED done

\* Lines 77-86 (and 97-105 on a resolve error): the resolve completes.
RAC_Resolved(f) ==
    /\ fpc[f] = "resolve"
    /\ \E resolved \in BOOLEAN :
         IF resolved
         THEN /\ done' = [done EXCEPT ![f] = FALSE]
              /\ timer' = [timer EXCEPT ![f] = "armed"]
              \* asio::async_connect closes the socket before the attempt,
              \* which aborts whatever was pending on it.
              /\ conn' = [CancelPending(conn) EXCEPT ![f] = "pending"]
              /\ sock_' = "connecting"
              /\ fpc' = [fpc EXCEPT ![f] = "timer_wait"]
              /\ UNCHANGED <<status_, until>>
         ELSE /\ RAC_Backoff(f)
              /\ UNCHANGED <<conn, sock_>>
    /\ UNCHANGED <<shutting_down_, reconnect_active_, tpc,
                   sd_log, sd_returned, sd_late, cn>>

\* Line 83/86: the timer armed at `until` expires; its handler is queued.
DeadlineExpires(f) ==
    /\ timer[f] = "armed"
    /\ timer' = [timer EXCEPT ![f] = "fired"]
    /\ until' = [until EXCEPT ![f] = "past"]
    /\ UNCHANGED <<status_, shutting_down_, reconnect_active_, sock_, tpc, fpc,
                   conn, done, sd_log, sd_returned, sd_late, cn>>

\* Line 84: the OS completes the connect; the completion is queued.
ConnectCompletes(f) ==
    /\ conn[f] = "pending"
    /\ \E ok \in BOOLEAN :
         /\ conn' = [conn EXCEPT ![f] = IF ok THEN "q_ok" ELSE "q_err"]
         /\ sock_' = IF ok THEN "connected" ELSE "unconnected"
    /\ UNCHANGED <<status_, shutting_down_, reconnect_active_, tpc, fpc,
                   until, timer, done, sd_log, sd_returned, sd_late, cn>>

\* connect_cb with line 69 moved under an `if (ec)`: a success no longer
\* clears the error in status_.
connect_cb_KeepsError(f) ==
    /\ conn[f] \in {"q_ok", "q_err", "q_abort"}
    /\ FrameAlive(f)
    /\ timer' = [timer EXCEPT ![f] = IF timer[f] = "armed" THEN "cancelled"
                                                           ELSE timer[f]]
    /\ status_' = IF conn[f] = "q_ok" THEN status_ ELSE CompletionCode(conn[f])
    /\ done' = [done EXCEPT ![f] = TRUE]
    /\ conn' = [conn EXCEPT ![f] = "none"]
    /\ cn' = IF f = ConnFiber /\ conn[f] = "q_ok"
             THEN [cn EXCEPT !.succ = TRUE] ELSE cn
    /\ UNCHANGED <<shutting_down_, reconnect_active_, sock_, tpc, fpc, until,
                   sd_log, sd_returned, sd_late>>

\* Lines 60-71: connect_cb runs on the io thread while its frame is alive.
connect_cb(f) ==
    /\ conn[f] \in {"q_ok", "q_err", "q_abort"}
    /\ FrameAlive(f)
    /\ timer' = [timer EXCEPT ![f] = IF timer[f] = "armed" THEN "cancelled"
                                                           ELSE timer[f]]
    /\ status_' = CompletionCode(conn[f])
    /\ done' = [done EXCEPT ![f] = TRUE]
    /\ conn' = [conn EXCEPT ![f] = "none"]
    /\ cn' = IF f = ConnFiber /\ conn[f] = "q_ok"
             THEN [cn EXCEPT !.succ = TRUE] ELSE cn
    /\ UNCHANGED <<shutting_down_, reconnect_active_, sock_, tpc, fpc, until,
                   sd_log, sd_returned, sd_late>>

\* connect_cb of an async_connect whose ResolveAndConnect frame has already
\* returned (line 92 taken while the operation was outstanding): the handler
\* writes status_ and uses the destroyed timer and Done.  Undefined
\* behaviour: the process goes on with the member write, or it crashes
\* (every thread and fiber stops).
connect_cb_dangling(f) ==
    /\ conn[f] \in {"q_ok", "q_err", "q_abort"}
    /\ ~FrameAlive(f)
    /\ status_' = CompletionCode(conn[f])
    /\ \E crash \in BOOLEAN :
         IF ~crash
         THEN /\ conn' = [conn EXCEPT ![f] = "none"]
              /\ UNCHANGED <<tpc, fpc, until, timer, done>>
         ELSE /\ conn' = [g \in Fibers |-> "none"]
              /\ tpc' = [t \in Threads |-> "crashed"]
              /\ fpc' = [g \in Fibers |-> "none"]
              /\ until' = [g \in Fibers |-> "early"]
              /\ timer' = [g \in Fibers |-> "idle"]
              /\ done' = [g \in Fibers |-> FALSE]
    /\ UNCHANGED <<shutting_down_, reconnect_active_, sock_,
                   sd_log, sd_returned, sd_late, cn>>

\* Lines 86-94: the timer wait returns (the timer fired or was cancelled).
RAC_TimerWake(f) ==
    /\ fpc[f] = "timer_wait"
    /\ timer[f] \in {"fired", "cancelled"}
    /\ IF status_ # "ok" /\ timer[f] = "fired"
       THEN \* line 89: sock_.cancel(), then done.Wait()
            /\ conn' = CancelPending(conn)
            /\ sock_' = IF sock_ = "connecting" THEN "unconnected" ELSE sock_
            /\ cn' = IF f = ConnFiber THEN [cn EXCEPT !.timedout = TRUE] ELSE cn
            /\ IF done[f]
               THEN RAC_Backoff(f)
               ELSE /\ fpc' = [fpc EXCEPT ![f] = "done_wait"]
                    /\ timer' = [timer EXCEPT ![f] = "idle"]
                    /\ UNCHANGED <<status_, until, done>>
       ELSE IF status_ = "ok"
       THEN \* line 92: return; connected
            /\ RAC_Return(f)
            /\ UNCHANGED <<status_, conn, sock_, cn>>
       ELSE \* line 94: done.Wait()
            /\ UNCHANGED <<conn, sock_, cn>>
            /\ IF done[f]
               THEN RAC_Backoff(f)
               ELSE /\ fpc' = [fpc EXCEPT ![f] = "done_wait"]
                    /\ timer' = [timer EXCEPT ![f] = "idle"]
                    /\ UNCHANGED <<status_, until, done>>
    /\ UNCHANGED <<shutting_down_, reconnect_active_, tpc,
                   sd_log, sd_returned, sd_late>>

\* Line 94: done.Wait() returns once connect_cb has notified.
RAC_DoneWake(f) ==
    /\ fpc[f] = "done_wait"
    /\ done[f]
    /\ RAC_Backoff(f)
    /\ UNCHANGED <<shutting_down_, reconnect_active_, sock_, tpc, conn,
                   sd_log, sd_returned, sd_late, cn>>

\* Lines 104-108, 73: the sleep timer fires and the loop condition is read.
RAC_SleepWake(f) ==
    /\ fpc[f] = "sleep"
    /\ \E u \in ClockFrom(until[f]) : RAC_Loop(f, u)
    /\ UNCHANGED <<status_, shutting_down_, reconnect_active_, sock_, tpc, conn,
                   sd_log, sd_returned, sd_late, cn>>

(***************************************************************************)
(* ReconnectFiber and the fiber Connect() posts.                           *)
(***************************************************************************)
\* Lines 131-134: the posted fiber starts; until = now + 30s.
ReconnectFiber_Start(f) ==
    /\ f \in RFibers
    /\ fpc[f] = "posted"
    /\ RAC_Loop(f, "early")
    /\ UNCHANGED <<status_, shutting_down_, reconnect_active_, sock_, tpc,
                   conn, sd_log, sd_returned, sd_late, cn>>

\* shd_cnd_.notify_one(): one of the threads blocked in the wait, if any,
\* is made to re-evaluate its predicate.
NotifyOne(pcs) ==
    IF \E t \in Threads : pcs[t] = "sd_blocked"
    THEN {[pcs EXCEPT ![t] = "sd_wait"] : t \in {u \in Threads : pcs[u] = "sd_blocked"}}
    ELSE {pcs}

\* Lines 135-140: ResolveAndConnect has returned; the test of line 137 is
\* made without shd_mu_: re-arm (ReconnectAsync(); return) or go on to the
\* lock of line 142.
ReconnectFiber_Exit(f) ==
    /\ f \in RFibers
    /\ fpc[f] = "ret"
    /\ fpc' = [fpc EXCEPT ![f] = IF ContinueTrying THEN "posted" ELSE "lock"]
    /\ UNCHANGED <<status_, shutting_down_, reconnect_active_, sock_, tpc, until,
                   timer, conn, done, sd_log, sd_returned, sd_late, cn>>

\* Lines 142-152, under shd_mu_: clear the flag, notify a Shutdown() that
\* waits; the fiber ends.
ReconnectFiber_Clear(f) ==
    /\ f \in RFibers
    /\ fpc[f] = "lock"
    /\ reconnect_active_' = FALSE
    /\ fpc' = [fpc EXCEPT ![f] = "none"]
    /\ IF shutting_down_
       THEN tpc' \in NotifyOne(tpc)
       ELSE UNCHANGED tpc
    /\ UNCHANGED <<status_, shutting_down_, sock_, until, timer, conn, done,
                   sd_log, sd_returned, sd_late, cn>>

\* Lines 41-47: the posted closure starts the fiber that runs
\* ResolveAndConnect(tp); tp was taken by the caller at line 33.
ConnectFiber_Start ==
    /\ fpc[ConnFiber] = "posted"
    /\ \E u \in ClockFrom("early") : RAC_Loop(ConnFiber, u)
    /\ UNCHANGED <<status_, shutting_down_, reconnect_active_, sock_, tpc,
                   conn, sd_log, sd_returned, sd_late, cn>>

\* Line 44: done.Notify() after ResolveAndConnect returned.
ConnectFiber_Done ==
    /\ fpc[ConnFiber] = "ret"
    /\ fpc' = [fpc EXCEPT ![ConnFiber] = "none"]
    /\ cn' = [cn EXCEPT !.state = "notified"]
    /\ UNCHANGED <<status_, shutting_down_, reconnect_active_, sock_, tpc, until,
                   timer, conn, done, sd_log, sd_returned, sd_late>>

(***************************************************************************)
(* Calls made by the threads that use the channel.                         *)
(***************************************************************************)
\* An I/O operation on the channel fails on thread t: the operation stores
\* the error in status_ and calls HandleErrorStatus().  Operations are
\* issued outside Connect() calls.
OperationFails(t) ==
    /\ tpc[t] = "idle"
    /\ ~ConnectInProgress
    /\ status_' = "io_err"
    /\ \E dropped \in BOOLEAN :
         sock_' = IF dropped /\ sock_ = "connected" THEN "unconnected" ELSE sock_
    /\ tpc' = [tpc EXCEPT ![t] = "hes"]
    /\ sd_late' = [sd_late EXCEPT ![t] = FALSE]
    /\ UNCHANGED <<shutting_down_, reconnect_active_, fpc, until, timer, conn,
                   done, sd_log, sd_returned, cn>>

\* Lines 156-158: the unlocked test of the two flags.
HandleErrorStatus_Check(t) ==
    /\ tpc[t] = "hes"
    /\ tpc' = [tpc EXCEPT ![t] = IF HandleErrorStatusSkips THEN "idle"
                                                            ELSE "hes_lock"]
    /\ UNCHANGED <<status_, shutting_down_, reconnect_active_, sock_, fpc, until,
                   timer, conn, done, sd_log, sd_returned, sd_late, cn>>

FreeSlots == {f \in RFibers : fpc[f] = "none" /\ conn[f] = "none"}

\* Lines 161-165: under shd_mu_, set the flag and post the reconnect fiber.
HandleErrorStatus_Spawn(t) ==
    /\ tpc[t] = "hes_lock"
    /\ FreeSlots # {}
    /\ LET f == CHOOSE g \in FreeSlots : \A h \in FreeSlots : g <= h
       IN  fpc' = [fpc EXCEPT ![f] = "posted"]
    /\ reconnect_active_' = TRUE
    /\ tpc' = [tpc EXCEPT ![t] = "idle"]
    /\ UNCHANGED <<status_, shutting_down_, sock_, until, timer, conn, done,
                   sd_log, sd_returned, sd_late, cn>>

\* Shutdown() without the test of line 112: the body runs on every call.
Shutdown_Enter_NoTest(t) ==
    /\ tpc[t] = "idle"
    /\ tpc' = [tpc EXCEPT ![t] = "sd_body"]
    /\ sd_late' = [sd_late EXCEPT ![t] = sd_returned]
    /\ UNCHANGED <<status_, shutting_down_, reconnect_active_, sock_, fpc, until,
                   timer, conn, done, sd_log, sd_returned, cn>>

\* Line 112: Shutdown() is entered and reads shutting_down_.
Shutdown_Enter(t) ==
    /\ tpc[t] = "idle"
    /\ tpc' = [tpc EXCEPT ![t] = IF ~shutting_down_ THEN "sd_body" ELSE "sd_wait"]
    /\ sd_late' = [sd_late EXCEPT ![t] = sd_returned]
    /\ UNCHANGED <<status_, shutting_down_, reconnect_active_, sock_, fpc, until,
                   timer, conn, done, sd_log, sd_returned, cn>>

\* The error code of sock_.shutdown(shutdown_both, ec) (TRUE = no error):
\* no error on a connected socket, an error (not connected) on a socket with
\* no connection attempt, and either while a connect is in flight (the
\* platform decides).
ShutdownSucceeds ==
    CASE sock_ = "connected" -> {TRUE}
      [] sock_ = "connecting" -> {TRUE, FALSE}
      [] OTHER -> {FALSE}

\* Lines 113-125: set the flag, shut the socket down and, if that reported
\* no error, cancel its pending operations.
Shutdown_Body(t) ==
    /\ tpc[t] = "sd_body"
    /\ shutting_down_' = TRUE
    /\ \E ok \in ShutdownSucceeds :
         IF ok
         THEN /\ sock_' = "shut"
              /\ conn' = CancelPending(conn)
              /\ sd_log' = sd_log \cup {"shutdown", "cancel"}
         ELSE /\ sd_log' = sd_log \cup {"shutdown"}
              /\ UNCHANGED <<sock_, conn>>
    /\ tpc' = [tpc EXCEPT ![t] = "sd_wait"]
    /\ UNCHANGED <<status_, reconnect_active_, fpc, until, timer, done,
                   sd_returned, sd_late, cn>>

\* Lines 127-129: take shd_mu_ and test the predicate; block on shd_cnd_
\* if it is false, return if it is true.
Shutdown_Wait(t) ==
    /\ tpc[t] = "sd_wait"
    /\ IF ShutdownWaitDone
       THEN /\ tpc' = [tpc EXCEPT ![t] = "idle"]
            /\ sd_returned' = TRUE
       ELSE /\ tpc' = [tpc EXCEPT ![t] = "sd_blocked"]
            /\ UNCHANGED sd_returned
    /\ UNCHANGED <<status_, shutting_down_, reconnect_active_, sock_, fpc, until,
                   timer, conn, done, sd_log, sd_late, cn>>

NoCall == [state |-> "none", posted |-> FALSE, succ |-> FALSE,
           timedout |-> FALSE, result |-> "none"]

\* Lines 23-48: Connect(ms) is called where its CHECK holds and no
\* reconnect is under way.  Connected already: return status_ at once;
\* otherwise post the fiber and wait for it.
Connect_Call(t) ==
    /\ tpc[t] = "idle"
    /\ ~shutting_down_ /\ ~reconnect_active_
    /\ NoFibers /\ cn.state = "none"
    /\ \A u \in Threads : tpc[u] \notin {"hes", "hes_lock"}
    /\ IF status_ = "ok"
       THEN /\ cn' = [NoCall EXCEPT !.state = "returned", !.result = status_]
            /\ tpc' = [tpc EXCEPT ![t] = "cn_ret"]
            /\ UNCHANGED fpc
       ELSE /\ cn' = [NoCall EXCEPT !.state = "running", !.posted = TRUE]
            /\ tpc' = [tpc EXCEPT ![t] = "cn_wait"]
            /\ fpc' = [fpc EXCEPT ![ConnFiber] = "posted"]
    /\ sd_late' = [sd_late EXCEPT ![t] = FALSE]
    /\ UNCHANGED <<status_, shutting_down_, reconnect_active_, sock_, until, timer,
                   conn, done, sd_log, sd_returned>>

\* Lines 48-50: done.Wait() returns; return status_.
Connect_Return(t) ==
    /\ tpc[t] = "cn_wait"
    /\ cn.state = "notified"
    /\ cn' = [cn EXCEPT !.state = "returned", !.result = status_]
    /\ tpc' = [tpc EXCEPT ![t] = "cn_ret"]
    /\ UNCHANGED <<status_, shutting_down_, reconnect_active_, sock_, fpc, until,
                   timer, conn, done, sd_log, sd_returned, sd_late>>

\* The caller has the result and goes on.
Connect_Leave(t) ==
    /\ tpc[t] = "cn_ret"
    /\ cn' = NoCall
    /\ tpc' = [tpc EXCEPT ![t] = "idle"]
    /\ UNCHANGED <<status_, shutting_down_, reconnect_active_, sock_, fpc, until,
                   timer, conn, done, sd_log, sd_returned, sd_late>>

\* The fibers of a channel run on one reactor thread: while a fiber is
\* between its test of line 137 and its lock of line 142 (no suspension
\* point) no other fiber of the channel takes a step.
OnReactor(f) == \A g \in Fibers : g # f => fpc[g] # "lock"

NextCC ==
    \/ \E t \in Threads :
         \/ OperationFails(t) /\ OnlyCC
         \/ HandleErrorStatus_Check(t) /\ OnlyCC
         \/ HandleErrorStatus_Spawn(t) /\ OnlyCC
         \/ Shutdown_Enter(t) /\ OnlyCC
         \/ Shutdown_Body(t) /\ OnlyCC
         \/ Shutdown_Wait(t) /\ OnlyCC
         \/ Connect_Call(t) /\ OnlyCC
         \/ Connect_Return(t) /\ OnlyCC
         \/ Connect_Leave(t) /\ OnlyCC
    \/ \E f \in Fibers :
         \/ ReconnectFiber_Start(f) /\ OnReactor(f) /\ OnlyCC
         \/ ReconnectFiber_Exit(f) /\ OnReactor(f) /\ OnlyCC
         \/ ReconnectFiber_Clear(f) /\ OnlyCC
         \/ RAC_Resolved(f) /\ OnReactor(f) /\ OnlyCC
         \/ DeadlineExpires(f) /\ OnlyCC
         \/ ConnectCompletes(f) /\ OnlyCC
         \/ connect_cb(f) /\ OnReactor(f) /\ OnlyCC
         \/ connect_cb_dangling(f) /\ OnReactor(f) /\ OnlyCC
         \/ RAC_TimerWake(f) /\ OnReactor(f) /\ OnlyCC
         \/ RAC_DoneWake(f) /\ OnReactor(f) /\ OnlyCC
         \/ RAC_SleepWake(f) /\ OnReactor(f) /\ OnlyCC
    \/ ConnectFiber_Start /\ OnReactor(ConnFiber) /\ OnlyCC
    \/ ConnectFiber_Done /\ OnReactor(ConnFiber) /\ OnlyCC

\* The channel when Shutdown() is never called: every step of NextCC but
\* those of Shutdown().
NextCCNoShutdown ==
    \/ \E t \in Threads :
         \/ OperationFails(t) /\ OnlyCC
         \/ HandleErrorStatus_Check(t) /\ OnlyCC
         \/ HandleErrorStatus_Spawn(t) /\ OnlyCC
         \/ Connect_Call(t) /\ OnlyCC
         \/ Connect_Return(t) /\ OnlyCC
         \/ Connect_Leave(t) /\ OnlyCC
    \/ \E f \in Fibers :
         \/ ReconnectFiber_Start(f) /\ OnReactor(f) /\ OnlyCC
         \/ ReconnectFiber_Exit(f) /\ OnReactor(f) /\ OnlyCC
         \/ ReconnectFiber_Clear(f) /\ OnlyCC
         \/ RAC_Resolved(f) /\ OnReactor(f) /\ OnlyCC
         \/ DeadlineExpires(f) /\ OnlyCC
         \/ ConnectCompletes(f) /\ OnlyCC
         \/ connect_cb(f) /\ OnReactor(f) /\ OnlyCC
         \/ connect_cb_dangling(f) /\ OnReactor(f) /\ OnlyCC
         \/ RAC_TimerWake(f) /\ OnReactor(f) /\ OnlyCC
         \/ RAC_DoneWake(f) /\ OnReactor(f) /\ OnlyCC
         \/ RAC_SleepWake(f) /\ OnReactor(f) /\ OnlyCC
    \/ ConnectFiber_Start /\ OnReactor(ConnFiber) /\ OnlyCC
    \/ ConnectFiber_Done /\ OnReactor(ConnFiber) /\ OnlyCC

(***************************************************************************)
(* ClientChannel properties.                                               *)
(***************************************************************************)
ReconnectFibers == {f \in RFibers : fpc[f] # "none"}

\* C1. At most one reconnect fiber exists, and reconnect_active_ is true
\* exactly when one exists, under every interleaving of HandleErrorStatus
\* calls from any thread, ReconnectFiber and Shutdown.
C1_SingleReconnect ==
    /\ Cardinality(ReconnectFibers) <= 1
    /\ reconnect_active_ <=> (Cardinality(ReconnectFibers) = 1)

\* C2. Once a Shutdown() call has returned, no reconnect fiber is running
\* and reconnect_active_ is false, now and in every later state.
C2_ShutdownAfterFiberGone ==
    sd_returned => (ReconnectFibers = {} /\ ~reconnect_active_)

\* C3 as written. Whenever the async_connect completed successfully before
\* Connect() returned, the returned status is ok, whatever the order of the
\* completion, the deadline timer and the cancel; and a Connect() on a
\* connected channel returns ok without posting work.
C3_ConnectReturnsOk ==
    cn.state = "returned" =>
        /\ (cn.succ => cn.result = "ok")
        /\ (~cn.posted => cn.result = "ok")

\* C3 amended. Connect() returns ok exactly when connect_cb delivered a
\* success before the fiber saw the deadline timer expire with status_ still
\* an error (line 87); a success delivered after that cancel point, and no
\* success at all, give an error; a Connect() on a connected channel
\* returns ok without posting work.
C3_ConnectWithinDeadline ==
    cn.state = "returned" =>
        /\ (~cn.posted => cn.result = "ok")
        /\ (cn.posted /\ cn.succ /\ ~cn.timedout => cn.result = "ok")
        /\ (cn.posted /\ (~cn.succ \/ cn.timedout) => cn.result \in ErrorCodes)

C3_Witness ==
    cn.state = "returned" /\ cn.posted /\ cn.succ /\ ~cn.timedout
                          /\ cn.result = "ok"

\* C4. The Shutdown() call that sets shutting_down_ shuts the socket down
\* and cancels its pending operations in every state of the channel, so an
\* async_connect in flight is woken (its completion is queued with an
\* error) before the caller waits on the condvar.
C4_ShutdownCancels ==
    [][ (~shutting_down_ /\ shutting_down_') =>
          /\ {"shutdown", "cancel"} \subseteq sd_log'
          /\ \A f \in Fibers : conn[f] = "pending" => conn'[f] = "q_abort" ]_vars

C6_HandleErrorStatusFrame ==
    [][ \A t \in Threads :
          /\ (tpc[t] = "hes" /\ tpc'[t] \in {"idle", "hes_lock"}) =>
                /\ tpc'[t] = (IF shutting_down_ \/ reconnect_active_
                              THEN "idle" ELSE "hes_lock")
                /\ UNCHANGED <<status_, shutting_down_, reconnect_active_,
                               sock_, fpc, conn>>
          /\ (tpc[t] = "hes_lock" /\ tpc'[t] = "idle") =>
                /\ reconnect_active_'
                /\ \E f \in RFibers :
                      /\ fpc[f] = "none" /\ fpc'[f] = "posted"
                      /\ \A g \in Fibers \ {f} : fpc'[g] = fpc[g]
                /\ UNCHANGED <<status_, shutting_down_, sock_, conn>> ]_vars

C6_Witness ==
    /\ reconnect_active_
    /\ \E f \in RFibers : fpc[f] = "posted"
    /\ \E t \in Threads : tpc[t] = "idle" /\ ~sd_late[t]

(***************************************************************************)
(* AcceptServer.                                                           *)
(***************************************************************************)
Handlers == 1..MaxConns

Reactors == 1..NumReactors

\* accept_server.cc:18  io_cntx_(pool->GetNextContext()): the reactor that
\* runs the acceptor, the signal handler and RunInIOThread.
AcceptReactor == 1

InitAS ==
    /\ acceptor_ = "open"
    /\ was_run_ = FALSE
    /\ done_ = FALSE
    /\ srv = "none"
    /\ clist = <<>>
    /\ cur = 0
    /\ hst = [h \in Handlers |-> "unborn"]
    /\ hsock = [h \in Handlers |-> "none"]
    /\ mpc = "idle"
    /\ hctx = [h \in Handlers |-> 0]
    /\ sock_ops = {}
    /\ list_thr = {}

\* handler->hook_.is_linked()
Linked(h) == \E i \in 1..Len(clist) : clist[i] = h

\* The wait of line 85 with a predicate that is always satisfied.
EmptyListPred_Always == TRUE

\* accept_server.cc:85  empty_list.wait(lk, [&clist] { return clist.empty(); })
EmptyListPred == clist = <<>>

\* accept_server.cc:85-87: the predicate is evaluated on the accept reactor's
\* thread; when it holds the wait returns and done_.notify() follows without
\* a suspension point in between, otherwise the fiber suspends on empty_list.
WaitEmptyList ==
    IF EmptyListPred
    THEN done_' = TRUE /\ srv' = "stopped"
    ELSE done_' = done_ /\ srv' = "waiting"

\* accept_server.cc:106-112  Run(): post the server fiber, set was_run_.
Run ==
    /\ mpc = "idle"
    /\ ~was_run_
    /\ was_run_' = TRUE
    /\ srv' = "posted"
    /\ UNCHANGED <<acceptor_, done_, clist, cur, hst, hsock, mpc,
                   hctx, sock_ops, list_thr>>

\* accept_server.cc:114-117  Wait(): returns at once if Run() was not called.
Wait_Call ==
    /\ mpc = "idle"
    /\ mpc' = (IF was_run_ THEN "in_wait" ELSE "wait_returned")
    /\ UNCHANGED <<acceptor_, was_run_, done_, srv, clist, cur, hst, hsock,
                   hctx, sock_ops, list_thr>>

\* accept_server.cc:116  done_.wait() returns once done_ is notified.
Wait_Return ==
    /\ mpc = "in_wait"
    /\ done_
    /\ mpc' = "wait_returned"
    /\ UNCHANGED <<acceptor_, was_run_, done_, srv, clist, cur, hst, hsock,
                   hctx, sock_ops, list_thr>>

\* The owner goes on after Wait().
Wait_Leave ==
    /\ mpc = "wait_returned"
    /\ mpc' = "idle"
    /\ UNCHANGED <<acceptor_, was_run_, done_, srv, clist, cur, hst, hsock,
                   hctx, sock_ops, list_thr>>

\* accept_server.cc:34-40  SIGINT/SIGTERM: acceptor_.close().
Signal ==
    /\ acceptor_ = "open"
    /\ acceptor_' = "closed"
    /\ UNCHANGED <<was_run_, done_, srv, clist, cur, hst, hsock, mpc,
                   hctx, sock_ops, list_thr>>

\* accept_server.cc:95-97  AcceptFiber: the factory constructs the next
\* handler and the fiber suspends in async_accept.
\* pool_->GetNextContext() (line 93) hands out reactor r; async_accept on
\* the new handler's socket is started from the accept loop's thread.
AcceptFiber_Construct(r) ==
    /\ cur' = cur + 1
    /\ srv' = "accept"
    /\ hctx' = [hctx EXCEPT ![cur + 1] = r]
    /\ sock_ops' = sock_ops \cup {<<cur + 1, "accept", AcceptReactor>>}

\* accept_server.cc:48-57  the posted fiber starts and enters the loop.
RunInIOThread_Start ==
    /\ srv = "posted"
    /\ \E r \in Reactors : AcceptFiber_Construct(r)
    /\ hst' = [hst EXCEPT ![cur + 1] = "accepting"]
    /\ UNCHANGED <<acceptor_, was_run_, done_, clist, hsock, mpc, list_thr>>

\* accept_server.cc:97-102, 61-68  the accept succeeds: link the handler,
\* Run() it, loop into the next AcceptFiber.
Accept_Ok ==
    /\ srv = "accept"
    /\ acceptor_ = "open"
    /\ cur < MaxConns
    /\ clist' = Append(clist, cur)
    /\ hsock' = [hsock EXCEPT ![cur] = "open"]
    /\ list_thr' = list_thr \cup {AcceptReactor}
    /\ \E r \in Reactors : AcceptFiber_Construct(r)
    /\ hst' = [hst EXCEPT ![cur] = "running", ![cur + 1] = "accepting"]
    /\ UNCHANGED <<acceptor_, was_run_, done_, mpc>>

\* accept_server.cc:62, 71-73  the accept succeeds but remote_endpoint()
\* throws (the peer is gone already): the handler is neither linked nor
\* run nor deleted, and the catch leaves the loop.
Accept_Throws ==
    /\ srv = "accept"
    /\ acceptor_ = "open"
    /\ hst' = [hst EXCEPT ![cur] = "leaked"]
    /\ hsock' = [hsock EXCEPT ![cur] = "open"]
    /\ srv' = "cleanup"
    /\ UNCHANGED <<acceptor_, was_run_, done_, clist, cur, mpc,
                   hctx, sock_ops, list_thr>>

\* accept_server.cc:99-100, 58-60  the accept fails (operation_aborted once
\* the acceptor is closed, or an error of the OS): the unique_ptr deletes
\* the handler and the loop breaks.
Accept_Fails ==
    /\ srv = "accept"
    /\ hst' = [hst EXCEPT ![cur] = "destroyed"]
    /\ srv' = "cleanup"
    /\ UNCHANGED <<acceptor_, was_run_, done_, clist, cur, hsock, mpc,
                   hctx, sock_ops, list_thr>>

\* A cleanup pass that closes no socket.
CleanupCloses_None(h) == FALSE

\* accept_server.cc:77-79  for (it = clist.begin(); ...) it->socket().close()
CleanupCloses(h) == Linked(h)

\* accept_server.cc:75-87  close the socket of every linked handler, then
\* wait for the empty list.
RunInIOThread_Cleanup ==
    /\ srv = "cleanup"
    /\ hsock' = [h \in Handlers |-> IF CleanupCloses(h) THEN "closed" ELSE hsock[h]]
    /\ sock_ops' = sock_ops \cup
                      {<<h, "close", AcceptReactor>> : h \in {g \in Handlers : CleanupCloses(g)}}
    /\ list_thr' = list_thr \cup {AcceptReactor}
    /\ WaitEmptyList
    /\ UNCHANGED <<acceptor_, was_run_, clist, cur, hst, mpc, hctx>>

\* accept_server.cc:85-87  the server fiber, notified, evaluates the
\* predicate again.
RunInIOThread_Wake ==
    /\ srv = "woken"
    /\ WaitEmptyList
    /\ list_thr' = list_thr \cup {AcceptReactor}
    /\ UNCHANGED <<acceptor_, was_run_, clist, cur, hst, hsock, mpc,
                   hctx, sock_ops>>

\* The handler fiber's I/O ends because the peer closed the connection.
Handler_PeerCloses(h) ==
    /\ hst[h] = "running"
    /\ hst' = [hst EXCEPT ![h] = "failed"]
    /\ UNCHANGED <<acceptor_, was_run_, done_, srv, clist, cur, hsock, mpc,
                   hctx, sock_ops, list_thr>>

\* The handler fiber's I/O ends with an error because the cleanup pass
\* closed its socket (line 78).
Handler_SocketClosed(h) ==
    /\ hst[h] = "running"
    /\ hsock[h] = "closed"
    /\ hst' = [hst EXCEPT ![h] = "failed"]
    /\ UNCHANGED <<acceptor_, was_run_, done_, srv, clist, cur, hsock, mpc,
                   hctx, sock_ops, list_thr>>

\* The handler removes itself from the list by a closure that runs on the
\* accept reactor, notifies the empty-list condition variable, and its
\* fiber returns.
Handler_Unlink(h) ==
    /\ hst[h] = "failed"
    /\ clist' = SelectSeq(clist, LAMBDA x : x # h)
    /\ srv' = (IF srv = "waiting" THEN "woken" ELSE srv)
    /\ hst' = [hst EXCEPT ![h] = "returned"]
    /\ list_thr' = list_thr \cup {AcceptReactor}
    /\ UNCHANGED <<acceptor_, was_run_, done_, cur, hsock, mpc, hctx, sock_ops>>

\* accept_server.cc:97-100  the pending accept completes with
\* operation_aborted because the acceptor was closed.
Accept_Aborted == acceptor_ = "closed" /\ Accept_Fails

NextAS ==
    \/ Run /\ OnlyAS
    \/ Wait_Call /\ OnlyAS
    \/ Wait_Return /\ OnlyAS
    \/ Wait_Leave /\ OnlyAS
    \/ Signal /\ OnlyAS
    \/ RunInIOThread_Start /\ OnlyAS
    \/ Accept_Ok /\ OnlyAS
    \/ Accept_Throws /\ OnlyAS
    \/ Accept_Fails /\ OnlyAS
    \/ RunInIOThread_Cleanup /\ OnlyAS
    \/ RunInIOThread_Wake /\ OnlyAS
    \/ \E h \in Handlers :
         \/ Handler_PeerCloses(h) /\ OnlyAS
         \/ Handler_SocketClosed(h) /\ OnlyAS
         \/ Handler_Unlink(h) /\ OnlyAS

(***************************************************************************)
(* FiberQueueThreadPool.                                                   *)
(***************************************************************************)
Workers == 1..NumWorkers
\* Closure c is the one carried by the c-th Await call to reach its push
\* (one calling fiber each; the calls are numbered in that order).
Tasks == 1..MaxTasks

InitPool ==
    /\ input_ = [buf |-> <<>>, closed |-> FALSE]
    /\ workers_ = [i \in 1..NumWorkers |-> i]
    /\ wpc = [w \in Workers |-> "pop"]
    /\ wcur = [w \in Workers |-> 0]
    /\ ppc = "live"
    /\ jidx = 0
    /\ tst = [c \in Tasks |-> "idle"]
    /\ exec = [c \in Tasks |-> 0]
    /\ aborted = FALSE
    /\ pushed = <<>>
    /\ popped = <<>>
    /\ at_close = [buf |-> <<>>, pushed |-> <<>>, dtor |-> FALSE]
    /\ sd_calls = 0

\* The bounded channel (boost::fibers::buffered_channel): a ring of
\* QueueSize slots of which one is kept free.
ChanFull(ch) == Len(ch.buf) >= QueueSize - 1

\* push() returns closed on a closed channel, success once there is room.
ChanPushClosed(ch) == ch.closed

\* A pop that takes the newest element instead of the oldest.
ChanPopIndex_Newest(buf) == Len(buf)

\* pop() takes the element at the consumer index: the oldest one.
ChanPopIndex(buf) == 1

ChanRemove(buf, i) == [j \in 1..(Len(buf) - 1) |-> IF j < i THEN buf[j] ELSE buf[j + 1]]

\* pop() returns closed only when the channel is closed and empty.
ChanPopClosed(ch) == ch.closed /\ ch.buf = <<>>

\* Await(f): the calling fiber pushes the closure (with its Done) onto
\* input_; the push suspends while the channel is full and fails once it is
\* closed.
Await_Push(c) ==
    /\ ~aborted
    /\ tst[c] = "idle"
    /\ \A d \in Tasks : d < c => tst[d] # "idle"
    /\ ppc # "destroyed"
    /\ IF ChanPushClosed(input_)
       THEN /\ tst' = [tst EXCEPT ![c] = "rejected"]
            /\ UNCHANGED <<input_, pushed>>
       ELSE /\ ~ChanFull(input_)
            /\ input_' = [input_ EXCEPT !.buf = Append(@, c)]
            /\ pushed' = Append(pushed, c)
            /\ tst' = [tst EXCEPT ![c] = "queued"]
    /\ UNCHANGED <<workers_, wpc, wcur, ppc, jidx, exec, aborted, popped,
                   at_close, sd_calls>>

\* Await(f): the Done is notified and the calling fiber resumes.
Await_Return(c) ==
    /\ ~aborted
    /\ tst[c] = "done"
    /\ tst' = [tst EXCEPT ![c] = "completed"]
    /\ UNCHANGED <<input_, workers_, wpc, wcur, ppc, jidx, exec, aborted,
                   pushed, popped, at_close, sd_calls>>

\* A worker that leaves its loop after the first closure.
AfterInvoke_Once == "exited"

\* fiberqueue_threadpool.cc:48  while (true): after f() the worker pops again.
AfterInvoke == "pop"

\* fiberqueue_threadpool.cc:50-52  input_.pop(f); break when closed.
Worker_Pop(w) ==
    /\ ~aborted
    /\ wpc[w] = "pop"
    /\ IF ChanPopClosed(input_)
       THEN /\ wpc' = [wpc EXCEPT ![w] = "exited"]
            /\ UNCHANGED <<input_, wcur, popped>>
       ELSE /\ input_.buf # <<>>
            /\ LET i == ChanPopIndex(input_.buf) IN
                 /\ wcur' = [wcur EXCEPT ![w] = input_.buf[i]]
                 /\ popped' = Append(popped, input_.buf[i])
                 /\ input_' = [input_ EXCEPT !.buf = ChanRemove(@, i)]
            /\ wpc' = [wpc EXCEPT ![w] = "run"]
    /\ UNCHANGED <<workers_, ppc, jidx, tst, exec, aborted, pushed, at_close,
                   sd_calls>>

\* fiberqueue_threadpool.cc:55  f() returns: the result is stored and the
\* Done of the Await is notified; the worker loops.
Worker_Returns(w) ==
    /\ ~aborted
    /\ wpc[w] = "run"
    /\ exec' = [exec EXCEPT ![wcur[w]] = @ + 1]
    /\ tst' = [tst EXCEPT ![wcur[w]] = "done"]
    /\ wpc' = [wpc EXCEPT ![w] = AfterInvoke]
    /\ wcur' = [wcur EXCEPT ![w] = 0]
    /\ UNCHANGED <<input_, workers_, ppc, jidx, aborted, pushed, popped,
                   at_close, sd_calls>>

\* fiberqueue_threadpool.cc:55-59  f() throws: LOG(FATAL) ends the process.
Worker_Throws(w) ==
    /\ ~aborted
    /\ wpc[w] = "run"
    /\ exec' = [exec EXCEPT ![wcur[w]] = @ + 1]
    /\ aborted' = TRUE
    /\ UNCHANGED <<input_, workers_, wpc, wcur, ppc, jidx, tst, pushed, popped,
                   at_close, sd_calls>>

\* fiberqueue_threadpool.cc:39  input_.close()
Shutdown_Close(in_dtor) ==
    /\ input_' = [input_ EXCEPT !.closed = TRUE]
    /\ at_close' = (IF input_.closed THEN at_close
                    ELSE [buf |-> input_.buf, pushed |-> pushed, dtor |-> in_dtor])
    /\ sd_calls' = sd_calls + 1
    /\ jidx' = 1

\* fiberqueue_threadpool.cc:36-39  Shutdown() called by the owner.
Pool_Shutdown ==
    /\ ~aborted
    /\ ppc = "live"
    /\ Shutdown_Close(FALSE)
    /\ ppc' = "sd_join"
    /\ UNCHANGED <<workers_, wpc, wcur, tst, exec, aborted, pushed, popped>>

\* A join that does not wait for the thread.
Joined_NoWait(w) == TRUE

\* fiberqueue_threadpool.cc:41  pthread_join returns once the thread ended.
Joined(w) == wpc[w] = "exited"

\* fiberqueue_threadpool.cc:40-42  one iteration of the join loop.
Pool_Join ==
    /\ ~aborted
    /\ ppc \in {"sd_join", "dt_join"}
    /\ jidx <= Len(workers_)
    /\ Joined(workers_[jidx])
    /\ jidx' = jidx + 1
    /\ UNCHANGED <<input_, workers_, wpc, wcur, ppc, tst, exec, aborted, pushed,
                   popped, at_close, sd_calls>>

\* fiberqueue_threadpool.cc:43  workers_.clear(); Shutdown() returns.
Pool_Clear ==
    /\ ~aborted
    /\ ppc \in {"sd_join", "dt_join"}
    /\ jidx > Len(workers_)
    /\ workers_' = <<>>
    /\ ppc' = (IF ppc = "sd_join" THEN "shut" ELSE "destroyed")
    /\ jidx' = 0
    /\ UNCHANGED <<input_, wpc, wcur, tst, exec, aborted, pushed, popped,
                   at_close, sd_calls>>

\* fiberqueue_threadpool.cc:28-34  ~FiberQueueThreadPool(): Shutdown() only
\* if workers_ is not empty.
Pool_Dtor ==
    /\ ~aborted
    /\ ppc \in {"live", "shut"}
    /\ IF workers_ # <<>>
       THEN /\ Shutdown_Close(TRUE)
            /\ ppc' = "dt_join"
       ELSE /\ ppc' = "destroyed"
            /\ UNCHANGED <<input_, at_close, sd_calls, jidx>>
    /\ UNCHANGED <<workers_, wpc, wcur, tst, exec, aborted, pushed, popped>>

NextPool ==
    \/ \E c \in Tasks :
         \/ Await_Push(c) /\ OnlyPool
         \/ Await_Return(c) /\ OnlyPool
    \/ \E w \in Workers :
         \/ Worker_Pop(w) /\ OnlyPool
         \/ Worker_Returns(w) /\ OnlyPool
         \/ Worker_Throws(w) /\ OnlyPool
    \/ Pool_Shutdown /\ OnlyPool
    \/ Pool_Join /\ OnlyPool
    \/ Pool_Clear /\ OnlyPool
    \/ Pool_Dtor /\ OnlyPool

(***************************************************************************)
(* GcsReadFile.                                                            *)
(***************************************************************************)
Min(a, b) == IF a <= b THEN a ELSE b

Max(a, b) == IF a >= b THEN a ELSE b

Ok(n) == [status |-> "OK", n |-> n]

Failed(code) == [status |-> code, n |-> 0]

\* Errors of https_handle_->Read() other than need_buffer.
NetErrors == {"partial_message", "stream_truncated", "other"}

InitGcs ==
    /\ obj_len = 0
    /\ gpc = "none"
    /\ offs_ = 0
    /\ size_ = -1
    /\ https_handle_ = 0
    /\ parser_ = [first |-> 0, length |-> 0, read |-> 0]
    /\ rpc = "idle"
    /\ r_offset = 0
    /\ r_len = 0
    /\ read_sofar = 0
    /\ range = <<>>
    /\ res = Failed("none")
    /\ out = <<>>
    /\ errs = 0
    /\ hist = {}
    /\ placed = 0
    /\ opens = 0

\* A test that only rejects offsets beyond the current one.
NotSequential_OnlyAhead(offset) == offset > offs_

\* gcs_read_file.cc:100  if (offset != offs_)
NotSequential(offset) == offset # offs_

\* gcs_read_file.cc:105  parser()->is_done()
ParserDone == parser_.read = parser_.length

\* gcs_read_file.cc:80-82  the GET request: a Range header "bytes=<offs_>-"
\* only if offs_ is not zero.
OpenRequest == [has_range |-> offs_ # 0, from |-> offs_]

\* The server's answer: the whole object (200), or the part from the
\* requested offset (206); Content-Length is the length of the body sent.
ServerResponse(req) ==
    IF req.has_range
    THEN [first |-> req.from, length |-> obj_len - req.from]
    ELSE [first |-> 0, length |-> obj_len]

\* gcs_read_file.cc:88-92  size_ = the Content-Length of this response.
ContentLength(rsp) == rsp.length

\* gcs_read_file.cc:84-94  Open() succeeds: new parser, size_, new handle.
Open_Ok ==
    LET rsp == ServerResponse(OpenRequest) IN
      /\ parser_' = [first |-> rsp.first, length |-> rsp.length, read |-> 0]
      /\ size_' = ContentLength(rsp)
      /\ opens' = opens + 1
      /\ https_handle_' = opens + 1

\* gcs_read_file.cc:84-86  SendGeneric fails: Open() returns its status.
Open_Fails ==
    /\ errs < MaxNetErrors
    /\ errs' = errs + 1
    /\ hist' = hist \cup {"open_failed"}
    /\ UNCHANGED <<parser_, size_, opens, https_handle_>>

\* gcs_read_file.cc:178-189  OpenGcsReadFile builds the URL of an object,
\* which has n bytes, and constructs the GcsReadFile for it.
OpenGcsReadFile(n) ==
    /\ gpc = "none"
    /\ gpc' = "new"
    /\ obj_len' = n
    /\ UNCHANGED <<offs_, size_, https_handle_, parser_, rpc, r_offset, r_len,
                   read_sofar, range, res, out, errs, hist, placed, opens>>

\* gcs_read_file.cc:190-192  fl->Open() of the new file.
Gcs_Open ==
    /\ gpc = "new"
    /\ \/ Open_Ok /\ gpc' = "open" /\ UNCHANGED <<errs, hist>>
       \/ Open_Fails /\ gpc' = "open_failed"
    /\ UNCHANGED <<obj_len, offs_, rpc, r_offset, r_len, read_sofar, range, res,
                   out, placed>>

\* gcs_read_file.cc:97-109  Read(offset, range) up to the loop.
Read_Call(offset, len) ==
    /\ gpc = "open"
    /\ rpc = "idle"
    /\ r_offset' = offset
    /\ r_len' = len
    /\ IF NotSequential(offset)
       THEN /\ res' = Failed("INVALID_ARGUMENT")
            /\ rpc' = "returned"
            /\ UNCHANGED <<read_sofar, range, placed>>
       ELSE IF ParserDone
       THEN /\ res' = Ok(0)
            /\ rpc' = "returned"
            /\ UNCHANGED <<read_sofar, range, placed>>
       ELSE /\ res' = Failed("none")
            /\ rpc' = "net"
            /\ read_sofar' = 0
            /\ range' = [i \in 1..len |-> 0]
            /\ placed' = 0
    /\ UNCHANGED <<obj_len, gpc, offs_, size_, https_handle_, parser_, out, errs,
                   hist, opens>>

\* The caller's buffer after j body bytes, starting with the byte at offset
\* base of the object, were stored from position read_sofar on
\* (body.data = range.data() + read_sofar, line 115).
Stored(base, j) ==
    [i \in 1..r_len |->
        IF read_sofar < i /\ i <= read_sofar + j THEN base + (i - read_sofar)
                                                  ELSE range[i]]

\* A partial_message that does not advance read_sofar.
KeptAfter_OffsetOnly(ec, http_read) == 0

\* gcs_read_file.cc:133-142  bytes of the failed network read that are kept:
\* all of them on partial_message (offs_ and read_sofar advance), none on
\* stream_truncated.
KeptAfter(ec, http_read) == IF ec = "partial_message" THEN http_read ELSE 0

\* A Read() that reports the whole buffer as filled.
ReturnedCount_Capacity(http_read) == r_len

\* gcs_read_file.cc:130  return http_read + read_sofar;
ReturnedCount(http_read) == http_read + read_sofar

\* gcs_read_file.cc:113-157  one pass of the loop: https_handle_->Read() and
\* what follows from its error code.
Read_Net ==
    /\ gpc = "open"
    /\ rpc = "net"
    /\ LET cap == r_len - read_sofar
           avail == parser_.length - parser_.read
           base == parser_.first + parser_.read
       IN
       IF https_handle_ = 0
       THEN \* line 118 on an empty handle
            /\ gpc' = "crashed"
            /\ UNCHANGED <<offs_, https_handle_, parser_, rpc, read_sofar, range,
                           res, errs, hist, placed>>
       ELSE
         \/ \* lines 121-131: no error, or need_buffer (the buffer is full)
            LET http_read == Min(cap, avail) IN
              /\ range' = Stored(base, http_read)
              /\ parser_' = [parser_ EXCEPT !.read = @ + http_read]
              /\ offs_' = offs_ + http_read
              /\ res' = Ok(ReturnedCount(http_read))
              /\ rpc' = "returned"
              /\ placed' = Max(placed, read_sofar + http_read)
              /\ UNCHANGED <<gpc, https_handle_, read_sofar, errs, hist>>
         \/ \* lines 133-157: the connection fails after http_read bytes
            /\ errs < MaxNetErrors
            /\ \E ec \in NetErrors, http_read \in 0..Min(cap, avail - 1) :
                 /\ range' = Stored(base, http_read)
                 /\ parser_' = [parser_ EXCEPT !.read = @ + http_read]
                 /\ placed' = Max(placed, read_sofar + http_read)
                 /\ errs' = errs + 1
                 /\ hist' = hist \cup {ec} \cup
                            (IF ec = "stream_truncated" /\ http_read > 0
                             THEN {"refetch"} ELSE {})
                 /\ IF ec = "other"
                    THEN /\ res' = Failed("IO_ERROR")
                         /\ rpc' = "returned"
                         /\ UNCHANGED <<offs_, read_sofar, https_handle_>>
                    ELSE /\ offs_' = offs_ + (IF ec = "partial_message"
                                              THEN http_read ELSE 0)
                         /\ read_sofar' = read_sofar + KeptAfter(ec, http_read)
                         /\ https_handle_' = 0
                         /\ rpc' = "reopen"
                         /\ UNCHANGED res
            /\ UNCHANGED gpc
    /\ UNCHANGED <<obj_len, size_, r_offset, r_len, out, opens>>

\* gcs_read_file.cc:148-151, 110, 160  Open() after the handle was reset,
\* then continue: the loop goes on or Read() returns read_sofar.
Read_Reopen ==
    /\ gpc = "open"
    /\ rpc = "reopen"
    /\ \/ /\ Open_Ok
          /\ IF read_sofar < r_len
             THEN rpc' = "net" /\ UNCHANGED res
             ELSE rpc' = "returned" /\ res' = Ok(read_sofar)
          /\ UNCHANGED <<errs, hist>>
       \/ /\ Open_Fails
          /\ res' = Failed("IO_ERROR")
          /\ rpc' = "returned"
    /\ UNCHANGED <<obj_len, gpc, offs_, r_offset, r_len, read_sofar, range, out,
                   placed>>

\* Read() has returned: the caller takes the bytes it was given.
Read_Leave ==
    /\ rpc = "returned"
    /\ out' = (IF res.status = "OK" THEN out \o SubSeq(range, 1, res.n) ELSE out)
    /\ rpc' = "idle"
    /\ r_offset' = 0
    /\ r_len' = 0
    /\ read_sofar' = 0
    /\ range' = <<>>
    /\ placed' = 0
    /\ UNCHANGED <<obj_len, gpc, offs_, size_, https_handle_, parser_, res, errs,
                   hist, opens>>

\* gcs_read_file.cc:164-174  Close(): the handle is released.
Gcs_Close ==
    /\ gpc = "open"
    /\ rpc = "idle"
    /\ https_handle_' = 0
    /\ gpc' = "closed"
    /\ UNCHANGED <<obj_len, offs_, size_, parser_, rpc, r_offset, r_len,
                   read_sofar, range, res, out, errs, hist, placed, opens>>

NextGcs ==
    \/ \E n \in 0..MaxObjLen : OpenGcsReadFile(n) /\ OnlyGcs
    \/ Gcs_Open /\ OnlyGcs
    \/ \E offset \in 0..MaxObjLen, len \in 1..MaxBufLen :
         Read_Call(offset, len) /\ OnlyGcs
    \/ Read_Net /\ OnlyGcs
    \/ Read_Reopen /\ OnlyGcs
    \/ Read_Leave /\ OnlyGcs
    \/ Gcs_Close /\ OnlyGcs

(***************************************************************************)
(* Specifications.                                                         *)
(***************************************************************************)
Init == InitCC /\ InitAS /\ InitPool /\ InitGcs

SpecCC == Init /\ [][NextCC]_vars

SpecAS == Init /\ [][NextAS]_vars

SpecPool == Init /\ [][NextPool]_vars

SpecGcs == Init /\ [][NextGcs]_vars

\* The channel's reactor and its callers run: a thread inside
\* HandleErrorStatus() or Connect() goes on, a posted fiber starts, a fiber
\* that is ready resumes, an outstanding resolve or connect completes and
\* its handler runs.  The deadline timer and failing operations are events
\* of the environment and are not forced.
CCFairness ==
    /\ \A t \in Threads : WF_vars(HandleErrorStatus_Check(t) /\ OnlyCC)
    /\ \A t \in Threads : WF_vars(HandleErrorStatus_Spawn(t) /\ OnlyCC)
    /\ \A t \in Threads : WF_vars(Connect_Return(t) /\ OnlyCC)
    /\ \A t \in Threads : WF_vars(Connect_Leave(t) /\ OnlyCC)
    /\ \A f \in Fibers : WF_vars(ReconnectFiber_Start(f) /\ OnReactor(f) /\ OnlyCC)
    /\ \A f \in Fibers : WF_vars(ReconnectFiber_Exit(f) /\ OnReactor(f) /\ OnlyCC)
    /\ \A f \in Fibers : WF_vars(ReconnectFiber_Clear(f) /\ OnlyCC)
    /\ \A f \in Fibers : WF_vars(RAC_Resolved(f) /\ OnReactor(f) /\ OnlyCC)
    /\ \A f \in Fibers : WF_vars(ConnectCompletes(f) /\ OnlyCC)
    /\ \A f \in Fibers : WF_vars(connect_cb(f) /\ OnReactor(f) /\ OnlyCC)
    /\ \A f \in Fibers : WF_vars(connect_cb_dangling(f) /\ OnReactor(f) /\ OnlyCC)
    /\ \A f \in Fibers : WF_vars(RAC_TimerWake(f) /\ OnReactor(f) /\ OnlyCC)
    /\ \A f \in Fibers : WF_vars(RAC_DoneWake(f) /\ OnReactor(f) /\ OnlyCC)
    /\ \A f \in Fibers : WF_vars(RAC_SleepWake(f) /\ OnReactor(f) /\ OnlyCC)
    /\ WF_vars(ConnectFiber_Start /\ OnReactor(ConnFiber) /\ OnlyCC)
    /\ WF_vars(ConnectFiber_Done /\ OnReactor(ConnFiber) /\ OnlyCC)

SpecCCFair == Init /\ [][NextCCNoShutdown]_vars /\ CCFairness

\* As CCFairness, with Shutdown() among the calls: a thread inside
\* Shutdown() goes on while it is not blocked on shd_cnd_, and an armed
\* deadline timer fires.
CCShutdownFairness ==
    /\ CCFairness
    /\ \A t \in Threads : WF_vars(Shutdown_Body(t) /\ OnlyCC)
    /\ \A t \in Threads : WF_vars(Shutdown_Wait(t) /\ OnlyCC)
    /\ \A f \in Fibers : WF_vars(DeadlineExpires(f) /\ OnlyCC)

SpecCCShutdownFair == Init /\ [][NextCC]_vars /\ CCShutdownFairness

\* The reactor threads run: a posted fiber starts, a fiber that is ready
\* resumes, an accept on a closed acceptor and the I/O of a handler whose
\* socket was closed complete, a posted unlink closure runs, and the owner
\* waiting on done_ resumes once it is notified.
ASFairness ==
    /\ WF_vars(RunInIOThread_Start /\ OnlyAS)
    /\ WF_vars(Accept_Aborted /\ OnlyAS)
    /\ WF_vars(RunInIOThread_Cleanup /\ OnlyAS)
    /\ WF_vars(RunInIOThread_Wake /\ OnlyAS)
    /\ WF_vars(Wait_Return /\ OnlyAS)
    /\ \A h \in Handlers : WF_vars(Handler_SocketClosed(h) /\ OnlyAS)
    /\ \A h \in Handlers : WF_vars(Handler_Unlink(h) /\ OnlyAS)

SpecASFair == Init /\ [][NextAS]_vars /\ ASFairness

\* Worker threads are OS threads and the Await callers are fibers of running
\* reactors: a worker that can pop or finish its closure, and a fiber whose
\* Done is notified, eventually takes its step.
PoolFairness ==
    /\ \A w \in Workers : WF_vars(Worker_Pop(w) /\ OnlyPool)
    /\ \A w \in Workers : WF_vars(Worker_Returns(w) /\ OnlyPool)
    /\ \A c \in Tasks : WF_vars(Await_Return(c) /\ OnlyPool)

SpecPoolFair == Init /\ [][NextPool]_vars /\ PoolFairness

(***************************************************************************)
(* AcceptServer properties.                                                *)
(***************************************************************************)
\* Handlers whose accept succeeded and that were linked and run.
StillLinked == {h \in Handlers : hst[h] \in {"running", "failed"}}

\* C7. done_ is notified only when the accept loop has ended (the server
\* fiber is past its wait) and the list of live connections is empty, which
\* means that every handler that was linked has unlinked; and a Wait() made
\* after Run() returns only once done_ is notified.
C7_DrainSafety ==
    /\ done_ => /\ was_run_
                /\ srv = "stopped"
                /\ clist = <<>>
                /\ StillLinked = {}
    /\ \A h \in Handlers : Linked(h) <=> h \in StillLinked
    /\ (mpc = "wait_returned" /\ was_run_) => done_

\* Wait() has returned after a drain in which the cleanup pass closed the
\* socket of a handler that was still linked, and two handlers have unlinked.
C7_Witness ==
    /\ done_
    /\ was_run_
    /\ mpc = "wait_returned"
    /\ \E h \in Handlers : hst[h] = "returned" /\ hsock[h] = "closed"
    /\ Cardinality({h \in Handlers : hst[h] = "returned"}) >= 2

(***************************************************************************)
(* FiberQueueThreadPool and channel properties.                            *)
(***************************************************************************)
Range(seq) == {seq[i] : i \in 1..Len(seq)}

IsPrefix(a, b) == Len(a) <= Len(b) /\ \A i \in 1..Len(a) : a[i] = b[i]

NoDuplicates(seq) == \A i, j \in 1..Len(seq) : seq[i] = seq[j] => i = j

\* C8. Every closure that was pushed onto the input channel is eventually
\* popped and invoked, its Await completes, and it has then been invoked
\* exactly once (unless a closure throws, which ends the process); no
\* closure is ever popped twice or invoked more than once.
C8_OffloadLiveness ==
    /\ \A c \in Tasks :
          (tst[c] = "queued") ~> ((tst[c] = "completed" /\ exec[c] = 1) \/ aborted)
    /\ [](/\ NoDuplicates(popped)
          /\ \A c \in Tasks : exec[c] <= 1
          /\ \A w1, w2 \in Workers :
                (wcur[w1] # 0 /\ wcur[w1] = wcur[w2]) => w1 = w2)

\* All workers are busy, a further closure waits in the channel (more than
\* NumWorkers Awaits outstanding), the pool is not shut down, and an earlier
\* Await has completed.
C8_Witness ==
    /\ \A w \in Workers : wpc[w] = "run"
    /\ input_.buf # <<>>
    /\ ~input_.closed
    /\ ~aborted
    /\ \E c \in Tasks : tst[c] = "completed" /\ exec[c] = 1

\* Shutdown() (called by the owner or by the destructor) has returned.
ShutdownReturned == ppc = "shut" \/ (ppc = "destroyed" /\ sd_calls > 0)

\* C9. When Shutdown() has returned the channel is closed, every closure
\* that was in the channel when it was closed has been executed, every
\* worker has exited and workers_ is empty; a worker exits only when the
\* channel is closed and drained; and Shutdown() runs at most once, the
\* destructor not calling it again.
C9_ShutdownJoins ==
    /\ ShutdownReturned =>
          /\ input_.closed
          /\ input_.buf = <<>>
          /\ \A c \in Range(at_close.buf) : exec[c] = 1
          /\ \A w \in Workers : wpc[w] = "exited"
          /\ workers_ = <<>>
    /\ \A w \in Workers : wpc[w] = "exited" => ChanPopClosed(input_)
    /\ sd_calls <= 1

\* The owner called Shutdown() with two closures still in the channel, it
\* returned, and the destructor has run after it.
C9_Witness ==
    /\ ppc = "destroyed"
    /\ sd_calls = 1
    /\ ~at_close.dtor
    /\ Len(at_close.buf) >= 2

\* C10. The elements popped are, in order, a prefix of the elements pushed,
\* none twice; a consumer observes Closed only when the channel is closed
\* and everything pushed has been popped; and no push succeeds after close
\* (a push made then is rejected and its element is never delivered).
C10_ClosureDrain ==
    /\ IsPrefix(popped, pushed)
    /\ pushed = popped \o input_.buf
    /\ NoDuplicates(pushed)
    /\ \A w \in Workers : wpc[w] = "exited" => input_.closed /\ popped = pushed
    /\ input_.closed => pushed = at_close.pushed
    /\ \A c \in Tasks : tst[c] = "rejected" => input_.closed /\ c \notin Range(pushed)

\* Three pushes, then close with elements still buffered, a rejected push
\* after it, and a consumer that has observed Closed.
C10_Witness ==
    /\ \E w \in Workers : wpc[w] = "exited"
    /\ Len(pushed) >= 3
    /\ Len(at_close.buf) >= 1
    /\ \E c \in Tasks : tst[c] = "rejected"

(***************************************************************************)
(* GcsReadFile properties.                                                 *)
(***************************************************************************)
\* The object's bytes from offset a+1 to offset b.
Bytes(a, b) == [i \in 1..(b - a) |-> a + i]

\* C11. A Read() whose offset differs from offs_ returns INVALID_ARGUMENT at
\* once and leaves offs_, size_, the handle and the parser as they were, in
\* whatever state the reader is (also at the end of the object and after
\* failures).
C11_SequentialOnly ==
    [][ (rpc = "idle" /\ rpc' # "idle" /\ r_offset' # offs_) =>
            /\ rpc' = "returned"
            /\ res' = Failed("INVALID_ARGUMENT")
            /\ UNCHANGED <<offs_, size_, https_handle_, parser_, out>> ]_vars

\* A Read() at a wrong offset was refused after the whole (non-empty) object
\* had been read.
C11_Witness ==
    /\ rpc = "returned"
    /\ res.status = "INVALID_ARGUMENT"
    /\ r_offset < offs_
    /\ ParserDone
    /\ offs_ = obj_len
    /\ obj_len >= 2

\* C12. Without injected failures: every Read() at the current offset
\* returns the next Min(length, remaining) bytes of the object, in order, and
\* advances offs_ by that count, so that the bytes returned so far are the
\* first offs_ bytes of the object; at the end of the object it returns 0 and
\* leaves offs_ alone.
C12_RoundTrip ==
    (errs = 0 /\ gpc \in {"open", "closed"}) =>
        /\ out = Bytes(0, Len(out))
        /\ offs_ <= obj_len
        /\ rpc = "idle" => offs_ = Len(out)
        /\ (rpc = "returned" /\ res.status = "OK") =>
              /\ res.n = Min(r_len, obj_len - r_offset)
              /\ offs_ = r_offset + res.n
              /\ offs_ = Len(out) + res.n
              /\ SubSeq(range, 1, res.n) = Bytes(r_offset, offs_)
        /\ (rpc = "returned" /\ res.status # "OK") => res.status = "INVALID_ARGUMENT"

\* The whole object (longer than the buffer) has been returned by several
\* Read() calls without a failure, and a further Read() has returned 0.
C12_Witness ==
    /\ errs = 0
    /\ obj_len > MaxBufLen
    /\ out = Bytes(0, obj_len)
    /\ rpc = "returned"
    /\ res = Ok(0)
    /\ offs_ = obj_len

\* Only resumable failures so far, and every reopen succeeded.
Resumable == hist \subseteq {"partial_message", "stream_truncated", "refetch"}

\* C13 as stated: offs_ is the Read()'s start offset plus the number of
\* bytes that were written to the buffer, also when a reopen is due.
C13_OffsetTracksBuffer ==
    (Resumable /\ rpc \in {"net", "reopen"}) => offs_ = r_offset + placed

\* C13. With partial_message or stream_truncated injected after any number
\* of bytes of a network read, and reopens that succeed: no byte is lost or
\* duplicated.  offs_ is the Read()'s start offset plus read_sofar, the
\* bytes of the buffer that are kept (those of a read that ended in
\* partial_message are kept, those of a read that ended in stream_truncated
\* are fetched again into the same place); the reopened response starts at
\* offs_; the kept part of the buffer and the bytes returned by all Read()
\* calls are the object's bytes in order.
C13_Resumption ==
    (Resumable /\ gpc \in {"open", "closed"}) =>
        /\ out = Bytes(0, Len(out))
        /\ offs_ <= obj_len
        /\ rpc = "idle" => offs_ = Len(out)
        /\ rpc \in {"net", "reopen"} =>
              /\ Len(out) = r_offset
              /\ offs_ = r_offset + read_sofar
              /\ SubSeq(range, 1, read_sofar) = Bytes(r_offset, offs_)
        /\ rpc = "net" => parser_.first + parser_.read = offs_
        /\ (rpc = "returned" /\ res.status = "OK") =>
              /\ offs_ = r_offset + res.n
              /\ SubSeq(range, 1, res.n) = Bytes(r_offset, offs_)
        /\ (rpc = "returned" /\ res.status # "OK") => res.status = "INVALID_ARGUMENT"

\* One Read() met a partial_message and a stream_truncated that came after
\* bytes had been written, was reopened twice, and returned a full buffer
\* that ends the object.
C13_Witness ==
    /\ hist = {"partial_message", "stream_truncated", "refetch"}
    /\ opens = 3
    /\ rpc = "returned"
    /\ res = Ok(MaxBufLen)
    /\ offs_ = obj_len

(***************************************************************************)
(* AcceptServer: reactor isolation, accept loop, drain.                    *)
(***************************************************************************)
\* C14. Every operation on a handler's socket is performed on the thread of
\* the reactor the factory bound the handler to, and clist is read and
\* changed on the accept reactor's thread only.
C14_ReactorIsolation ==
    /\ \A op \in sock_ops : op[3] = hctx[op[1]]
    /\ list_thr \subseteq {AcceptReactor}

\* C15. Once the acceptor is closed after Run(), the server eventually
\* stops: the loop has ended, the sockets of the handlers that were linked
\* have been closed, the list is empty and done_ is notified; and a Wait()
\* that is blocked eventually returns.
C15_DrainLiveness ==
    /\ (acceptor_ = "closed" /\ was_run_) ~>
          (done_ /\ srv = "stopped" /\ clist = <<>>)
    /\ (acceptor_ = "closed" /\ mpc = "in_wait") ~> (mpc = "wait_returned")
    /\ [](srv \in {"waiting", "woken", "stopped"} =>
            \A h \in Handlers : Linked(h) => hsock[h] = "closed")

\* The acceptor was closed with every accepted connection still live; the
\* cleanup pass closed all of them, they unlinked, and Wait() has returned.
C15_Witness ==
    /\ acceptor_ = "closed"
    /\ done_
    /\ mpc = "wait_returned"
    /\ \A h \in 1..(MaxConns - 1) : hst[h] = "returned" /\ hsock[h] = "closed"

\* Handlers whose async_accept completed without an error.
AcceptedOk == {h \in Handlers : hst[h] \in {"running", "failed", "returned", "leaked"}}

\* Handlers that were linked into clist and whose Run() was called.
LinkedAndRun == {h \in Handlers : hst[h] \in {"running", "failed", "returned"}}

\* C16. A handler is in the list exactly while its fiber is running; every
\* handler whose accept succeeded was linked and run; a handler whose accept
\* failed was neither, and the loop has ended after that error; the list is
\* empty only when no linked handler's fiber is still running.
C16_AcceptLoop ==
    /\ \A h \in Handlers : Linked(h) <=> hst[h] \in {"running", "failed"}
    /\ AcceptedOk \subseteq LinkedAndRun
    /\ \A h \in Handlers :
          hst[h] = "destroyed" =>
             /\ ~Linked(h)
             /\ srv \in {"cleanup", "waiting", "woken", "stopped"}
             /\ cur = h
    /\ clist = <<>> => StillLinked = {}

\* C17. A reconnect fiber that finds the channel still disconnected and not
\* shutting down re-arms itself with reconnect_active_ kept true; and
\* reconnect_active_ goes from true to false only by a reconnect fiber at its
\* locked section, in a state where status_ is ok or shutting_down_ is true.
C17_ReconnectRearm ==
    [][/\ \A f \in RFibers :
             fpc[f] = "ret" /\ fpc'[f] = "posted" =>
                reconnect_active_ /\ reconnect_active_'
       /\ reconnect_active_ /\ ~reconnect_active_' =>
             /\ \E f \in RFibers : fpc[f] = "lock" /\ fpc'[f] = "none"
             /\ shutting_down_ \/ status_ = "ok"]_vars

\* A step in which a resolve, a connect attempt or an operation on the
\* channel fails, or an attempt's deadline passes before its connect ended.
AttemptFails ==
    \/ \E t \in Threads : tpc[t] = "idle" /\ tpc'[t] = "hes"
    \/ \E f \in Fibers : fpc[f] = "resolve" /\ fpc'[f] \in {"sleep", "ret"}
    \/ \E f \in Fibers : conn[f] = "pending" /\ conn'[f] = "q_err"
    \/ \E f \in Fibers : timer[f] = "armed" /\ timer'[f] = "fired"

Connected == status_ = "ok" /\ ~reconnect_active_

\* C18. With Shutdown() never called: if from some point on no resolve,
\* connect attempt or operation fails, then every reconnect that
\* HandleErrorStatus() started leads to status ok with reconnect_active_
\* false.
C18_ReconnectLiveness ==
    <>[][~AttemptFails]_vars => (reconnect_active_ ~> Connected)

\* C19. When the network read inside Read() fails with an error that is
\* not need_buffer, partial_message or stream_truncated, Read() returns an
\* error status and the reader holds no handle afterwards.
C19_NonResumableError ==
    [][(rpc = "net" /\ rpc' = "returned" /\ res'.status # "OK") =>
          (res'.status = "IO_ERROR" /\ https_handle_' = 0)]_vars

\* C20. While the file is open, after Open() and after any Reads, with or
\* without a reopen at an offset above zero, Size() is the length of the
\* object.
C20_SizeIsObjectLength == gpc = "open" => size_ = obj_len

\* Thread t is inside a call of Shutdown().
InShutdown(t) == tpc[t] \in {"sd_body", "sd_wait", "sd_blocked"}

\* C21. Every call of Shutdown() eventually returns, also when several
\* callers are blocked in it while a reconnect fiber is active.
C21_ShutdownTerminates ==
    \A t \in Threads : InShutdown(t) ~> (tpc[t] = "idle")

====
